---- MODULE Spec2Model ----
(***************************************************************************)
(* Model of quizz.py: a Tkinter quiz (QuizApp) over the module-level       *)
(* QUESTIONS list, with a top-10 high-score file scores.json read by       *)
(* load_scores and rewritten by save_score.                                *)
(*                                                                         *)
(* Every Tk callback runs to completion on the single event loop, and the  *)
(* modal dialogs it opens (askyesno, askstring) are answered inside it, so *)
(* each callback is one action and the dialog answers are its inputs.      *)
(***************************************************************************)
EXTENDS Integers, Sequences, FiniteSets, TLC

(* ------------------------------ bounds -------------------------------- *)

\* The session runs over the first NumQuestions entries of QUESTIONS.
NumQuestions == 2

\* A session shows at most MaxSubmits "Result" boxes.
MaxSubmits == 2

\* The store specification performs at most StoreMaxSaves calls of save_score.
StoreMaxSaves == 15

\* The history specification performs at most HistMaxSaves calls of save_score.
HistMaxSaves == 12

\* The round-trip specification performs at most RoundMaxSaves calls of
\* save_score.
RoundMaxSaves == 3

(* ------------------------- program constants --------------------------- *)

\* QUESTIONS: 'options' is kept as the number of options, 'a' is the
\* correct index (0-based, as in the source).
QUESTIONS ==
    << [options |-> 4, a |-> 1],
       [options |-> 4, a |-> 0],
       [options |-> 4, a |-> 1],
       [options |-> 4, a |-> 2],
       [options |-> 4, a |-> 0] >>

\* scores = scores[:10]
TopN == 10

\* name.strip()[:20]
NameCap == 20

\* tk.IntVar(value=-1): the value of self.selected when no option is chosen.
NoSelection == -1

\* Python's None in self.answers; a recorded answer i is <<i>>.
None == << >>

Some(v) == << v >>

(* ------------------------------- state --------------------------------- *)

VARIABLES
    current,        \* self.current (0-based)
    answers,        \* self.answers, 1-based sequence of None / Some(i)
    selected,       \* self.selected (IntVar)
    rb_state,       \* state of every radio button in self.option_buttons
    next_state,     \* state of self.next_btn
    prev_state,     \* state of self.prev_btn
    submit_state,   \* state of self.submit_btn
    file,           \* content of SCORES_FILE
    saves,          \* number of completed writes of SCORES_FILE
    results,        \* number of "Result" message boxes shown
    saved,          \* history kept by SpecHist only: the records written by
                    \* save_score, in the order saved
    last            \* the callback that ran last and how it ended

vars == << current, answers, selected, rb_state, next_state, prev_state,
           submit_state, file, saves, results, saved, last >>

sessionVars == << current, answers, selected, rb_state, next_state,
                  prev_state, submit_state, results >>

\* self.questions = QUESTIONS, cut to the model's bound
questions == SubSeq(QUESTIONS, 1, NumQuestions)

\* self.total = len(self.questions)
total == Len(questions)

(* ------------------------- high-score store ---------------------------- *)

\* The content of SCORES_FILE: absent, text json.load rejects ("unparsable"),
\* valid JSON whose top level is an object and not an array ("object", as
\* in {}), or an array of {"name","score","total"} records ("array").
AbsentFile == [kind |-> "absent", scores |-> << >>]

UnparsableFile == [kind |-> "unparsable", scores |-> << >>]

ObjectFile == [kind |-> "object", scores |-> << >>]

ArrayFile(s) == [kind |-> "array", scores |-> s]

\* load_scores without the try/except around json.load
load_scores_NoCatch(f) ==
    CASE f.kind = "absent"     ->
            [raised |-> FALSE, isList |-> TRUE,  items |-> << >>]
      [] f.kind = "unparsable" ->
            [raised |-> TRUE,  isList |-> FALSE, items |-> << >>]
      [] f.kind = "object"     ->
            [raised |-> FALSE, isList |-> FALSE, items |-> << >>]
      [] f.kind = "array"      ->
            [raised |-> FALSE, isList |-> TRUE,  items |-> f.scores]

\* load_scores: [] when the file is absent or json.load raises; otherwise
\* whatever json.load returns, a list only when the top level is an array.
\* It never raises: json.load's exception is caught.
load_scores(f) ==
    CASE f.kind = "absent"     ->
            [raised |-> FALSE, isList |-> TRUE,  items |-> << >>]
      [] f.kind = "unparsable" ->
            [raised |-> FALSE, isList |-> TRUE,  items |-> << >>]
      [] f.kind = "object"     ->
            [raised |-> FALSE, isList |-> FALSE, items |-> << >>]
      [] f.kind = "array"      ->
            [raised |-> FALSE, isList |-> TRUE,  items |-> f.scores]

\* key=lambda s: -s['score'], the total left out of the key
SortKeyLess_ScoreOnly(x, y) == (0 - x.score) < (0 - y.score)

\* key=lambda s: (-s['score'], -s['total']), compared as Python tuples
SortKeyLess(x, y) ==
    \/ (0 - x.score) < (0 - y.score)
    \/ (0 - x.score) = (0 - y.score) /\ (0 - x.total) < (0 - y.total)

\* A sort step that puts x before the elements with an equal key, as a
\* sort that reverses ties does
RECURSIVE InsertStable_BeforeEqual(_, _)
InsertStable_BeforeEqual(s, x) ==
    IF s = << >> THEN << x >>
    ELSE IF ~SortKeyLess(Head(s), x) THEN << x >> \o s
    ELSE << Head(s) >> \o InsertStable_BeforeEqual(Tail(s), x)

\* One step of the stable sort: x goes before the first element whose key
\* is greater than its own, after every element with an equal key.
RECURSIVE InsertStable(_, _)
InsertStable(s, x) ==
    IF s = << >> THEN << x >>
    ELSE IF SortKeyLess(x, Head(s)) THEN << x >> \o s
    ELSE << Head(s) >> \o InsertStable(Tail(s), x)

\* sorted(scores, key=...): Python's sort is stable
RECURSIVE sorted(_)
sorted(s) ==
    IF s = << >> THEN << >>
    ELSE InsertStable(sorted(SubSeq(s, 1, Len(s) - 1)), s[Len(s)])

\* A cut that keeps the last n entries
Truncate_Tail(s, n) ==
    IF Len(s) <= n THEN s ELSE SubSeq(s, Len(s) - n + 1, Len(s))

\* scores[:10]
Truncate(s, n) == IF Len(s) <= n THEN s ELSE SubSeq(s, 1, n)

\* save_score: the file it leaves, or raised when load_scores did not
\* return a list (scores.append fails before the file is opened).
save_score(f, name, score, tot) ==
    LET loaded == load_scores(f) IN
    IF loaded.raised \/ ~loaded.isList
    THEN [raised |-> TRUE, file |-> f]
    ELSE LET appended == Append(loaded.items,
                                [name |-> name, score |-> score, total |-> tot])
         IN [raised |-> FALSE,
             file |-> ArrayFile(Truncate(sorted(appended), TopN))]

(* ------------------------------- names --------------------------------- *)

\* str.strip() removes leading and trailing whitespace; names are
\* sequences of one-character strings.
IsSpace(c) == c = " "

RECURSIVE lstrip(_)
lstrip(s) ==
    IF s = << >> THEN s
    ELSE IF IsSpace(Head(s)) THEN lstrip(Tail(s)) ELSE s

RECURSIVE rstrip(_)
rstrip(s) ==
    IF s = << >> THEN s
    ELSE IF IsSpace(s[Len(s)]) THEN rstrip(SubSeq(s, 1, Len(s) - 1)) ELSE s

strip(s) == rstrip(lstrip(s))

\* name = name.strip()[:20]
CleanName(s) == Truncate(strip(s), NameCap)

\* if name: askstring returned a string (not None) and it is not empty
Truthy(ans) == ans # None /\ Len(ans[1]) > 0

(* ------------------------------ session -------------------------------- *)

\* save_current_answer that also records "no selection" as an answer
save_current_answer_RecordsNone(ans, cur, sel) ==
    IF sel >= NoSelection THEN [ans EXCEPT ![cur + 1] = Some(sel)] ELSE ans

\* save_current_answer that records against the first question
save_current_answer_FirstSlot(ans, cur, sel) ==
    IF sel >= 0 THEN [ans EXCEPT ![1] = Some(sel)] ELSE ans

\* save_current_answer that takes option 0 for "no selection"
save_current_answer_FalsyZero(ans, cur, sel) ==
    [ans EXCEPT ![cur + 1] = IF sel > 0 THEN Some(sel) ELSE None]

\* save_current_answer: the answers it leaves
save_current_answer(ans, cur, sel) ==
    IF sel >= 0 THEN [ans EXCEPT ![cur + 1] = Some(sel)] ELSE ans

\* calculate_score without the comparison to q['a']
RECURSIVE ScoreLoop_CountsAnswered(_, _, _)
ScoreLoop_CountsAnswered(ans, i, score) ==
    IF i > Len(questions) THEN score
    ELSE IF ans[i] # None
         THEN ScoreLoop_CountsAnswered(ans, i + 1, score + 1)
         ELSE ScoreLoop_CountsAnswered(ans, i + 1, score)

\* calculate_score: the loop over enumerate(self.questions)
RECURSIVE ScoreLoop(_, _, _)
ScoreLoop(ans, i, score) ==
    IF i > Len(questions) THEN score
    ELSE IF ans[i] # None /\ ans[i][1] = questions[i].a
         THEN ScoreLoop(ans, i + 1, score + 1)
         ELSE ScoreLoop(ans, i + 1, score)

calculate_score(ans) == ScoreLoop(ans, 1, 0)

\* any(a is None for a in self.answers)
AllNone_Any(ans) == \E i \in 1..Len(ans) : ans[i] = None

\* round(x, 1) for x = num/den >= 0, in tenths: the nearest tenth, an exact
\* tie going to the even tenth. The float x is taken as the exact quotient,
\* which gives Python's result for every total up to 40.
RoundTenths(num, den) ==
    LET q == (10 * num) \div den
        r == (10 * num) % den
    IN IF 2 * r > den \/ (2 * r = den /\ q % 2 = 1) THEN q + 1 ELSE q

\* pct = round(score/total * 100, 1), in tenths of a percent
Percent(score, tot) == RoundTenths(100 * score, tot)

\* all(a is None for a in self.answers)
AllNone(ans) == \A i \in 1..Len(ans) : ans[i] = None

\* self.selected.set(ans if ans is not None else 0)
LoadedSelection_ZeroDefault(ans, cur) ==
    IF ans[cur + 1] # None THEN ans[cur + 1][1] ELSE 0

\* load_question, the part that changes state: self.selected and prev_btn
LoadedSelection(ans, cur) ==
    IF ans[cur + 1] # None THEN ans[cur + 1][1] ELSE NoSelection

LoadedPrevState(cur) == IF cur > 0 THEN "normal" ELSE "disabled"

\* What the user can type into askstring; None is the Cancel button.
NameInputs == { << >>, << " " >>, << " ", "a", " " >> }

NameAnswers == { None } \cup { Some(n) : n \in NameInputs }

NoRecord == [name |-> << >>, score |-> 0 - 1, total |-> 0 - 1]

\* No "Result" box was shown.
NoScore == 0 - 1

\* What is remembered of the last callback: which one ran (op), whether a
\* button or a key started it (via), how it ended (res), the kind of file it
\* found (pre), the record it saved (rec), what askstring returned (typed)
\* what its "Result" box showed: "You scored {score} out of {of} ({pct}%)",
\* pct in tenths of a percent, and the list a load through the file's
\* text returned (loaded).
Event(op, via, res) ==
    [op |-> op, via |-> via, res |-> res, pre |-> file.kind,
     rec |-> NoRecord, typed |-> None, score |-> NoScore, of |-> NoScore,
     pct |-> NoScore, loaded |-> << >>]

Disabled ==
    /\ rb_state' = "disabled"
    /\ next_state' = "disabled"
    /\ prev_state' = "disabled"
    /\ submit_state' = "disabled"

\* __init__: the state after construction, load_question included
InitSession ==
    /\ current = 0
    /\ answers = [i \in 1..total |-> None]
    /\ selected = NoSelection
    /\ rb_state = "normal"
    /\ next_state = "normal"
    /\ prev_state = LoadedPrevState(0)
    /\ submit_state = "normal"
    /\ saves = 0
    /\ saved = << >>
    /\ results = 0
    /\ last = Event("init", "none", "none")

\* The files a session can find at startup.
InitFiles ==
    { AbsentFile, UnparsableFile, ObjectFile,
      ArrayFile(<< [name |-> << "z" >>, score |-> 1, total |-> total] >>) }

Init ==
    /\ file \in InitFiles
    /\ InitSession

\* A click on radio button i (variable=self.selected, value=i)
Select(i) ==
    /\ rb_state = "normal"
    /\ i \in 0..(questions[current + 1].options - 1)
    /\ selected' = i
    /\ last' = Event("select", "button", "none")
    /\ UNCHANGED << current, answers, rb_state, next_state, prev_state,
                    submit_state, file, saves, saved, results >>

\* submit_quiz, called with self.answers = ans; op and via name the
\* callback that led to it. confirmZero, wantSave and nameAns are the
\* answers to its three dialogs.
submit_quiz(op, via, ans, confirmZero, wantSave, nameAns) ==
    LET a1 == save_current_answer(ans, current, selected)
        score == calculate_score(a1)
        name == IF Truthy(nameAns) THEN CleanName(nameAns[1]) ELSE << >>
        sv == save_score(file, name, score, total)
        asked == IF wantSave THEN nameAns ELSE None
        shown(r) == [Event(op, via, r) EXCEPT !.score = score,
                                              !.of = total,
                                              !.pct = Percent(score, total),
                                              !.typed = asked]
    IN
    /\ answers' = a1
    /\ UNCHANGED << current, selected >>
    /\ IF AllNone(a1) /\ ~confirmZero
       THEN /\ last' = Event(op, via, "declined")
            /\ UNCHANGED << rb_state, next_state, prev_state, submit_state,
                            file, saves, saved, results >>
       ELSE /\ results' = results + 1
            /\ IF wantSave /\ Truthy(nameAns)
               THEN IF sv.raised
                    THEN /\ last' = shown("raised")
                         /\ UNCHANGED << rb_state, next_state, prev_state,
                                         submit_state, file, saves, saved >>
                    ELSE /\ file' = sv.file
                         /\ saves' = saves + 1
                         /\ UNCHANGED saved
                         /\ last' = [shown("saved") EXCEPT !.rec =
                                       [name |-> name, score |-> score,
                                        total |-> total]]
                         /\ Disabled
               ELSE /\ last' = shown(IF ~wantSave THEN "nosave"
                                     ELSE IF nameAns = None THEN "cancelled"
                                     ELSE "empty")
                    /\ UNCHANGED << file, saves, saved >>
                    /\ Disabled

\* next_question; the dialogs are only opened at the last question
next_question(via) ==
    LET a1 == save_current_answer(answers, current, selected) IN
    IF current < total - 1
    THEN /\ answers' = a1
         /\ current' = current + 1
         /\ selected' = LoadedSelection(a1, current + 1)
         /\ prev_state' = LoadedPrevState(current + 1)
         /\ last' = Event("next_question", via, "moved")
         /\ UNCHANGED << rb_state, next_state, submit_state, file, saves,
                         saved, results >>
    ELSE \E submitNow \in BOOLEAN :
         IF submitNow
         THEN /\ results < MaxSubmits
              /\ \E confirmZero \in BOOLEAN, wantSave \in BOOLEAN,
                    nameAns \in NameAnswers :
                    submit_quiz("next_question", via, a1, confirmZero,
                                wantSave, nameAns)
         ELSE /\ answers' = a1
              /\ last' = Event("next_question", via, "stayed")
              /\ UNCHANGED << current, selected, rb_state, next_state,
                              prev_state, submit_state, file, saves, saved,
                              results >>

\* prev_question with the test self.current > 1
prev_question_OffByOne(via) ==
    LET a1 == save_current_answer(answers, current, selected) IN
    /\ answers' = a1
    /\ last' = Event("prev_question", via,
                      IF current > 1 THEN "moved" ELSE "stayed")
    /\ IF current > 1
       THEN /\ current' = current - 1
            /\ selected' = LoadedSelection(a1, current - 1)
            /\ prev_state' = LoadedPrevState(current - 1)
       ELSE UNCHANGED << current, selected, prev_state >>
    /\ UNCHANGED << rb_state, next_state, submit_state, file, saves, saved,
                    results >>

\* prev_question
prev_question(via) ==
    LET a1 == save_current_answer(answers, current, selected) IN
    /\ answers' = a1
    /\ last' = Event("prev_question", via,
                      IF current > 0 THEN "moved" ELSE "stayed")
    /\ IF current > 0
       THEN /\ current' = current - 1
            /\ selected' = LoadedSelection(a1, current - 1)
            /\ prev_state' = LoadedPrevState(current - 1)
       ELSE UNCHANGED << current, selected, prev_state >>
    /\ UNCHANGED << rb_state, next_state, submit_state, file, saves, saved,
                    results >>

\* show_high_scores that first calls save_current_answer
show_high_scores_SavesAnswer ==
    LET scores == load_scores(file) IN
    /\ answers' = save_current_answer(answers, current, selected)
    /\ last' = Event("show_high_scores", "button",
                      IF scores.items = << >> THEN "no_scores" ELSE "listed")
    /\ UNCHANGED << current, selected, rb_state, next_state, prev_state,
                    submit_state, file, saves, saved, results >>

\* show_high_scores
show_high_scores ==
    LET scores == load_scores(file) IN
    /\ last' = Event("show_high_scores", "button",
                      IF scores.items = << >> THEN "no_scores" ELSE "listed")
    /\ UNCHANGED << current, answers, selected, rb_state, next_state,
                    prev_state, submit_state, file, saves, saved, results >>

(* ------------------------------ events --------------------------------- *)

\* command=self.next_question
NextButton ==
    /\ next_state = "normal"
    /\ next_question("button")

\* master.bind("<Right>", ...)
KeyRight == next_question("key")

\* master.bind("<Return>", ...)
KeyReturn == next_question("key")

\* command=self.prev_question
PrevButton ==
    /\ prev_state = "normal"
    /\ prev_question("button")

\* master.bind("<Left>", ...)
KeyLeft == prev_question("key")

\* command=self.submit_quiz
SubmitButton ==
    /\ submit_state = "normal"
    /\ results < MaxSubmits
    /\ \E confirmZero \in BOOLEAN, wantSave \in BOOLEAN,
          nameAns \in NameAnswers :
          submit_quiz("submit_quiz", "button", answers, confirmZero, wantSave,
                      nameAns)

\* command=self.show_high_scores
ViewScores == show_high_scores

Next ==
    \/ \E i \in 0..3 : Select(i)
    \/ NextButton
    \/ KeyRight
    \/ KeyReturn
    \/ PrevButton
    \/ KeyLeft
    \/ SubmitButton
    \/ ViewScores

Spec == Init /\ [][Next]_vars

(* --------------------------- store alone ------------------------------- *)

\* The names save_score is called with.
StoreNames == { << "a" >> }

\* The (score, total) pairs save_score is called with.
StoreKeys ==
    { [score |-> 2, total |-> 3], [score |-> 2, total |-> 2],
      [score |-> 1, total |-> 3], [score |-> 1, total |-> 2] }

StoreInit ==
    /\ file \in { AbsentFile, UnparsableFile, ObjectFile }
    /\ InitSession

\* A call save_score(name, score, total)
StoreSave ==
    /\ saves < StoreMaxSaves
    /\ \E name \in StoreNames, k \in StoreKeys :
          LET sv == save_score(file, name, k.score, k.total)
          IN IF sv.raised
             THEN /\ last' = Event("save_score", "call", "raised")
                  /\ UNCHANGED << file, saves, saved >>
             ELSE /\ file' = sv.file
                  /\ saves' = saves + 1
                  /\ UNCHANGED saved
                  /\ last' = [Event("save_score", "call", "saved")
                              EXCEPT !.rec = [name |-> name,
                                              score |-> k.score,
                                              total |-> k.total]]
    /\ UNCHANGED sessionVars

\* A call load_scores()
StoreLoad ==
    LET loaded == load_scores(file) IN
    /\ last' = Event("load_scores", "call",
                      IF loaded.raised THEN "raised"
                      ELSE IF ~loaded.isList THEN "not_a_list"
                      ELSE IF loaded.items = << >> THEN "empty"
                      ELSE "listed")
    /\ UNCHANGED << file, saves, saved >>
    /\ UNCHANGED sessionVars

StoreNext ==
    \/ StoreSave
    \/ StoreLoad

SpecStore == StoreInit /\ [][StoreNext]_vars

(* ------------------------- the typed name ------------------------------ *)

\* The longest run of letters the typed names hold; one more than NameCap,
\* so that the cut at NameCap happens.
MaxNameRun == 21

RECURSIVE Repeat(_, _)
Repeat(c, n) == IF n = 0 THEN << >> ELSE << c >> \o Repeat(c, n - 1)

\* What the user can type into askstring: spaces, a run of "a", a space, a
\* "b", spaces, each part present or not.
TypedNames ==
    { Repeat(" ", i) \o Repeat("a", j) \o Repeat(" ", k) \o Repeat("b", l)
      \o Repeat(" ", m) :
      i \in 0..1, j \in 0..MaxNameRun, k \in 0..1, l \in 0..1, m \in 0..1 }

\* command=self.submit_quiz, the user answering Yes to both questions and
\* typing a name
NameSubmit ==
    /\ submit_state = "normal"
    /\ \E n \in TypedNames :
          submit_quiz("submit_quiz", "button", answers, TRUE, TRUE, Some(n))

NameNext == NameSubmit

NameInit ==
    /\ file = AbsentFile
    /\ InitSession

SpecName == NameInit /\ [][NameNext]_vars

(* ------------------------- the percentage ------------------------------ *)

\* The longest question list the percentage is computed for.
MaxTotal == 16

\* pct = round(score / total * 100, 1) and the "Result" box, for a list of
\* tot questions of which score were answered correctly
PctShow ==
    /\ \E tot \in 1..MaxTotal, score \in 0..MaxTotal :
          /\ score <= tot
          /\ last' = [Event("result", "call", "shown")
                      EXCEPT !.score = score,
                             !.of = tot,
                             !.pct = Percent(score, tot)]
    /\ UNCHANGED << file, saves, saved >>
    /\ UNCHANGED sessionVars

PctNext == PctShow

PctInit ==
    /\ file = AbsentFile
    /\ InitSession

SpecPct == PctInit /\ [][PctNext]_vars

(* ------------------------ the text of the file ------------------------ *)

\* json.dump writes, and json.load reads, a text. The text is a sequence of
\* symbols: the structural ones ("[", "]", "{", "}", ",", and a key with its
\* colon) and, inside a string or a number, one character each. The
\* whitespace of indent=2 carries nothing and is left out.
Digits == << "0", "1", "2", "3", "4", "5", "6", "7", "8", "9" >>

DigitSet == { Digits[i] : i \in 1..Len(Digits) }

DigitValue(c) == (CHOOSE i \in 1..Len(Digits) : Digits[i] = c) - 1

\* An int as its decimal digits
RECURSIVE DumpInt(_)
DumpInt(n) ==
    IF n < Len(Digits) THEN << Digits[n + 1] >>
    ELSE DumpInt(n \div Len(Digits)) \o << Digits[(n % Len(Digits)) + 1] >>

\* A character written as it is: no backslash before a quote or a backslash
EscapeChar_None(c) == << c >>

\* A quote or a backslash inside a string is written after a backslash
EscapeChar(c) == IF c \in { "\"", "\\" } THEN << "\\", c >> ELSE << c >>

RECURSIVE EscapeChars(_)
EscapeChars(cs) ==
    IF cs = << >> THEN << >>
    ELSE EscapeChar(Head(cs)) \o EscapeChars(Tail(cs))

DumpString(cs) == << "\"" >> \o EscapeChars(cs) \o << "\"" >>

DumpRecord(r) ==
    << "{", "name:" >> \o DumpString(r.name)
    \o << ",", "score:" >> \o DumpInt(r.score)
    \o << ",", "total:" >> \o DumpInt(r.total) \o << "}" >>

RECURSIVE DumpRecords(_)
DumpRecords(s) ==
    IF s = << >> THEN << >>
    ELSE IF Len(s) = 1 THEN DumpRecord(s[1])
    ELSE DumpRecord(Head(s)) \o << "," >> \o DumpRecords(Tail(s))

\* json.dump(scores, f, indent=2): the text written
json_dump(s) == << "[" >> \o DumpRecords(s) \o << "]" >>

\* The symbol at place i of text t, or the end of the text
At(t, i) == IF i >= 1 /\ i <= Len(t) THEN t[i] ELSE "<eof>"

Failed == [ok |-> FALSE, val |-> << >>, next |-> 0]

\* The characters of a string from place i, just after its opening quote
RECURSIVE ParseChars(_, _)
ParseChars(t, i) ==
    IF At(t, i) = "<eof>" THEN Failed
    ELSE IF At(t, i) = "\"" THEN [ok |-> TRUE, val |-> << >>, next |-> i + 1]
    ELSE LET esc == At(t, i) = "\\"
             c == IF esc THEN At(t, i + 1) ELSE At(t, i)
             rest == ParseChars(t, IF esc THEN i + 2 ELSE i + 1)
         IN IF c = "<eof>" \/ ~rest.ok THEN Failed
            ELSE [ok |-> TRUE, val |-> << c >> \o rest.val,
                  next |-> rest.next]

ParseString(t, i) == IF At(t, i) = "\"" THEN ParseChars(t, i + 1) ELSE Failed

RECURSIVE ParseDigits(_, _, _)
ParseDigits(t, i, acc) ==
    IF At(t, i) \in DigitSet
    THEN ParseDigits(t, i + 1, acc * Len(Digits) + DigitValue(At(t, i)))
    ELSE [ok |-> TRUE, val |-> acc, next |-> i]

ParseInt(t, i) == IF At(t, i) \in DigitSet THEN ParseDigits(t, i, 0) ELSE Failed

\* One {"name": ..., "score": ..., "total": ...} object from place i
ParseRecord(t, i) ==
    IF At(t, i) # "{" \/ At(t, i + 1) # "name:" THEN Failed
    ELSE LET n == ParseString(t, i + 2) IN
    IF ~n.ok \/ At(t, n.next) # "," \/ At(t, n.next + 1) # "score:"
    THEN Failed
    ELSE LET sc == ParseInt(t, n.next + 2) IN
    IF ~sc.ok \/ At(t, sc.next) # "," \/ At(t, sc.next + 1) # "total:"
    THEN Failed
    ELSE LET to == ParseInt(t, sc.next + 2) IN
    IF ~to.ok \/ At(t, to.next) # "}" THEN Failed
    ELSE [ok |-> TRUE,
          val |-> [name |-> n.val, score |-> sc.val, total |-> to.val],
          next |-> to.next + 1]

\* The objects of an array from place i, up to its closing bracket
RECURSIVE ParseRecords(_, _, _)
ParseRecords(t, i, first) ==
    IF At(t, i) = "]" THEN [ok |-> TRUE, val |-> << >>, next |-> i + 1]
    ELSE IF ~first /\ At(t, i) # "," THEN Failed
    ELSE LET r == ParseRecord(t, IF first THEN i ELSE i + 1) IN
         IF ~r.ok THEN Failed
         ELSE LET rest == ParseRecords(t, r.next, FALSE) IN
              IF ~rest.ok THEN Failed
              ELSE [ok |-> TRUE, val |-> << r.val >> \o rest.val,
                    next |-> rest.next]

\* json.load(f): the list read from a text, or not ok when json.load raises
json_load(t) ==
    IF At(t, 1) # "[" THEN Failed
    ELSE LET r == ParseRecords(t, 2, TRUE) IN
         IF r.ok /\ r.next = Len(t) + 1 THEN r ELSE Failed

\* load_scores reading the text that save_score wrote for an array file:
\* as load_scores, but the list comes out of json.load, and a text that
\* json.load rejects gives [].
load_text(f) ==
    IF f.kind # "array" THEN load_scores(f)
    ELSE LET r == json_load(json_dump(f.scores)) IN
         [raised |-> FALSE, isList |-> TRUE,
          items |-> IF r.ok THEN r.val ELSE << >>]

(* ----------------------- store and its text --------------------------- *)

\* The names and (score, total) pairs save_score is called with: a name
\* with the characters the text has to escape, and numbers of two digits.
RoundNames == { << "a" >>, << "\"", ",", "\\" >> }

RoundKeys == { [score |-> 2, total |-> 10], [score |-> 10, total |-> 10] }

RoundInit ==
    /\ file \in { AbsentFile, UnparsableFile }
    /\ InitSession

\* A call save_score(name, score, total)
RoundSave ==
    /\ saves < RoundMaxSaves
    /\ \E name \in RoundNames, k \in RoundKeys :
          LET sv == save_score(file, name, k.score, k.total)
          IN IF sv.raised
             THEN /\ last' = Event("save_score", "call", "raised")
                  /\ UNCHANGED << file, saves >>
             ELSE /\ file' = sv.file
                  /\ saves' = saves + 1
                  /\ last' = [Event("save_score", "call", "saved")
                              EXCEPT !.rec = [name |-> name,
                                              score |-> k.score,
                                              total |-> k.total]]
    /\ UNCHANGED saved
    /\ UNCHANGED sessionVars

\* A call load_scores(), reading the text of the file
RoundLoad ==
    LET got == load_text(file) IN
    /\ last' = [Event("load_scores", "call",
                      IF got.items = << >> THEN "empty" ELSE "listed")
                EXCEPT !.loaded = got.items]
    /\ UNCHANGED << file, saves, saved >>
    /\ UNCHANGED sessionVars

RoundNext ==
    \/ RoundSave
    \/ RoundLoad

SpecRound == RoundInit /\ [][RoundNext]_vars

(* ----------------------- store with its history ----------------------- *)

\* The k-th call of save_score passes the k-th letter as the name, so that
\* all saved records are distinct and a name tells when its record was saved.
Letters ==
    << "a", "b", "c", "d", "e", "f", "g", "h", "i", "j", "k", "l", "m",
       "n", "o", "p", "q", "r", "s", "t", "u", "v", "w", "x", "y", "z" >>

HistName(k) == << Letters[k] >>

\* The (score, total) pairs save_score is called with.
HistKeys ==
    { [score |-> 2, total |-> 3], [score |-> 2, total |-> 2],
      [score |-> 1, total |-> 3] }

\* One run of saves uses at most two of the three pairs: any pair is open
\* until two different ones have been saved, then only those two.
HistKeyOf(r) == [score |-> r.score, total |-> r.total]

HistChoices(h) ==
    LET used == { HistKeyOf(h[i]) : i \in 1..Len(h) }
    IN IF Cardinality(used) < Cardinality(HistKeys) - 1 THEN HistKeys
       ELSE used

HistInit ==
    /\ file = AbsentFile
    /\ InitSession

\* A call save_score(name, score, total), remembered in saved
HistSave ==
    /\ saves < HistMaxSaves
    /\ \E k \in HistChoices(saved) :
          LET rec == [name |-> HistName(saves + 1), score |-> k.score,
                      total |-> k.total]
              sv == save_score(file, rec.name, rec.score, rec.total)
          IN IF sv.raised
             THEN /\ last' = Event("save_score", "call", "raised")
                  /\ UNCHANGED << file, saves, saved >>
             ELSE /\ file' = sv.file
                  /\ saves' = saves + 1
                  /\ saved' = Append(saved, rec)
                  /\ last' = [Event("save_score", "call", "saved")
                              EXCEPT !.rec = rec]
    /\ UNCHANGED sessionVars

HistNext == HistSave

SpecHist == HistInit /\ [][HistNext]_vars

(* --------------------------- lifecycle --------------------------------- *)

\* The session is Submitted once disable_quiz_after_submit has run: it is
\* the only code that disables submit_btn, and nothing enables it again.
Submitted == submit_state = "disabled"

InProgress == ~Submitted

\* The ways a submit_quiz call ends after it has shown the score.
ReportedResults == { "nosave", "cancelled", "empty", "saved", "raised" }

\* The callbacks that can reach submit_quiz.
SubmitOps == { "submit_quiz", "next_question" }

(* ------------------------------ claims --------------------------------- *)

\* C1: once the session is Submitted, no Previous or Next event, from a
\* button or from the keyboard, changes currentIndex.
C1_IndexFrozenAfterSubmit ==
    [][Submitted => current' = current]_vars

\* C2: when the user opts to save and types an empty or whitespace-only
\* name, no record is persisted and the leaderboard file stays as it was.
C2_BlankNameSkipsSave ==
    [][(/\ last'.op \in SubmitOps
        /\ last'.res \in ReportedResults
        /\ last'.typed # None
        /\ \A i \in 1..Len(last'.typed[1]) : last'.typed[1][i] = " ")
       => file' = file /\ saves' = saves]_vars

\* C3: after every save the stored leaderboard has at most 10 entries, is
\* sorted by score descending with equal scores ordered by total descending,
\* and holds exactly 10 entries once 10 or more records were saved (so also
\* after 15 saves).
C3_LeaderboardBoundedSorted ==
    file.kind = "array" =>
        /\ Len(file.scores) <= 10
        /\ \A i \in 1..Len(file.scores) : \A j \in 1..Len(file.scores) :
              i < j =>
                \/ file.scores[i].score > file.scores[j].score
                \/ /\ file.scores[i].score = file.scores[j].score
                   /\ file.scores[i].total >= file.scores[j].total
        /\ (saves < 10 => Len(file.scores) = saves)
        /\ (saves >= 10 => Len(file.scores) = 10)

\* Fifteen records were saved, with different scores and totals among those
\* kept.
C3_Witness ==
    /\ saves = 15
    /\ last.op = "save_score"
    /\ last.res = "saved"
    /\ Len(file.scores) = 10
    /\ file.scores[1].score > file.scores[10].score
    /\ \E i \in 1..9 :
          /\ file.scores[i].score = file.scores[i + 1].score
          /\ file.scores[i].total > file.scores[i + 1].total

\* C4: every call of submit_quiz that is not declined at the zero-answers
\* confirmation leaves the session Submitted, whatever the user answers to
\* the save dialogs and whatever the leaderboard file contained.
C4_SubmitEndsSubmitted ==
    (last.op \in SubmitOps /\ last.res \in ReportedResults) => Submitted

\* C5: the computed score is the number of questions whose recorded answer
\* is the correct index; an unanswered question never counts, and the score
\* is at most the number of questions.
C5_ScoreCountsCorrect ==
    LET correct == { i \in 1..total : answers[i] = << questions[i].a >> }
    IN /\ calculate_score(answers) = Cardinality(correct)
       /\ calculate_score(answers) <= total
       /\ (last.score # NoScore =>
              /\ last.score = Cardinality(correct)
              /\ last.score <= total)

\* A score was reported for a session with a correct answer, a wrong or
\* missing one, and an unanswered question.
C5_Witness ==
    /\ last.score = 1
    /\ \E i \in 1..total : answers[i] = << >>
    /\ \E i \in 1..total : answers[i] = << questions[i].a >>

\* C6: Next at the last question and Previous at index 0 leave currentIndex
\* alone; at any other index Next adds one to it and Previous takes one off.
C6_NavigationSteps ==
    [][/\ (last'.op = "next_question" =>
              current' = IF current = total - 1 THEN current
                         ELSE current + 1)
       /\ (last'.op = "prev_question" =>
              current' = IF current = 0 THEN current ELSE current - 1)]_vars

\* Next ran at the last question and the index stayed there.
C6_Witness ==
    /\ last.op = "next_question"
    /\ last.res = "stayed"
    /\ current = total - 1

\* C7: loading an absent or an unparsable leaderboard file returns an empty
\* sequence without raising, and a save on top of unparsable content leaves
\* exactly the one newly saved record.
C7_CorruptFileHandled ==
    [][/\ (last'.op = "load_scores" /\ file.kind \in {"absent", "unparsable"}
             => last'.res = "empty")
       /\ (file.kind \in {"absent", "unparsable"}
             => /\ ~load_scores(file).raised
                /\ load_scores(file).isList
                /\ load_scores(file).items = << >>)
       /\ (last'.op = "save_score" /\ file.kind = "unparsable"
             => /\ last'.res = "saved"
                /\ file'.kind = "array"
                /\ file'.scores = << last'.rec >>)]_vars

\* A record was saved on top of unparsable content.
C7_Witness ==
    /\ last.op = "save_score"
    /\ last.pre = "unparsable"
    /\ last.res = "saved"
    /\ file.scores = << last.rec >>

\* C8: a submission with no answered question asks for confirmation, and
\* when the user declines nothing changes: currentIndex, the answers, the
\* reported scores, the file and the controls stay as they were, and a
\* session in progress stays in progress with its controls active.
C8_DeclinedSubmitChangesNothing ==
    [][last'.res = "declined" =>
          /\ last'.op \in SubmitOps
          /\ \A i \in 1..total : answers[i] = << >>
          /\ answers' = answers
          /\ current' = current
          /\ selected' = selected
          /\ results' = results
          /\ file' = file
          /\ saves' = saves
          /\ rb_state' = rb_state
          /\ next_state' = next_state
          /\ prev_state' = prev_state
          /\ submit_state' = submit_state
          /\ last'.score = NoScore
          /\ (InProgress =>
                /\ submit_state' = "normal"
                /\ next_state' = "normal"
                /\ rb_state' = "normal")]_vars

\* The Submit button was pressed in a session in progress with no answer
\* and the user declined the confirmation.
C8_Witness ==
    /\ last.op = "submit_quiz"
    /\ last.res = "declined"
    /\ InProgress

\* C9: viewing the high scores, in progress or after submission, changes
\* neither currentIndex, the answers, the pending selection, the lifecycle
\* state and controls, nor the leaderboard file.
C9_ViewChangesNothing ==
    [][last'.op = "show_high_scores" =>
          /\ current' = current
          /\ answers' = answers
          /\ selected' = selected
          /\ rb_state' = rb_state
          /\ next_state' = next_state
          /\ prev_state' = prev_state
          /\ submit_state' = submit_state
          /\ results' = results
          /\ file' = file
          /\ saves' = saves]_vars

\* The high scores were viewed after a submission that saved a record,
\* with a selection pending on screen.
C9_Witness ==
    /\ last.op = "show_high_scores"
    /\ last.res = "listed"
    /\ Submitted
    /\ saves > 0
    /\ selected >= 0

\* C10: once the session is Submitted the answers never change again,
\* whatever event follows.
C10_AnswersFrozenAfterSubmit ==
    [][Submitted => answers' = answers]_vars

\* After submission a key moved to another question, with one question
\* answered and another not.
C10_Witness ==
    /\ Submitted
    /\ last.via = "key"
    /\ last.res = "moved"
    /\ \E i \in 1..total : answers[i] = << >>
    /\ \E i \in 1..total : answers[i] # << >>

\* The place of record r in the order of saving (names are distinct).
SavedAt(r) == CHOOSE i \in 1..Len(saved) : saved[i] = r

\* C11: in the stored leaderboard, records with equal score and total stand
\* in the order in which they were saved.
C11_TiesInSaveOrder ==
    \A i \in 1..Len(file.scores) : \A j \in 1..Len(file.scores) :
        (/\ i < j
         /\ file.scores[i].score = file.scores[j].score
         /\ file.scores[i].total = file.scores[j].total)
        => SavedAt(file.scores[i]) < SavedAt(file.scores[j])

\* More than ten records were saved; the board holds three records of one
\* (score, total) pair that were saved with records of another pair between
\* them.
C11_Witness ==
    /\ saves > 10
    /\ Len(file.scores) = 10
    /\ \E i \in 1..8 :
          /\ file.scores[i].score = file.scores[i + 2].score
          /\ file.scores[i].total = file.scores[i + 2].total
          /\ SavedAt(file.scores[i]) + 1 < SavedAt(file.scores[i + 1])
          /\ SavedAt(file.scores[i + 1]) + 1 < SavedAt(file.scores[i + 2])


\* How many times record r occurs in list s
Occurrences(s, r) == Cardinality({ i \in 1..Len(s) : s[i] = r })

\* C12: a load right after a save returns, through the text of the file,
\* exactly the list the save wrote; and a save replaces the content of the
\* file: what a load returns after it is what a load returned before it
\* with the one new record added (cut to ten), never the old text with
\* more text after it.
C12_RoundTrip ==
    [][/\ (/\ last'.op = "load_scores"
           /\ last.op = "save_score"
           /\ last.res = "saved")
          => last'.loaded = file.scores
       /\ (last'.op = "save_score" /\ last'.res = "saved")
          => LET before == load_text(file).items
                 after == load_text(file').items
             IN /\ after = file'.scores
                /\ Len(after) = IF Len(before) < TopN
                                THEN Len(before) + 1 ELSE TopN
                /\ Len(before) < TopN
                   => \A r \in { after[i] : i \in 1..Len(after) } :
                         Occurrences(after, r)
                         = Occurrences(before, r)
                           + (IF r = last'.rec THEN 1 ELSE 0)]_vars

C12_Witness ==
    /\ last.op = "load_scores"
    /\ saves = RoundMaxSaves
    /\ Len(last.loaded) = RoundMaxSaves
    /\ last.loaded = file.scores
    /\ \E i \in 1..Len(last.loaded) : last.loaded[i].name = << "\"", ",", "\\" >>
    /\ \E i \in 1..Len(last.loaded) : last.loaded[i].score = 10

\* C13: in every state currentIndex is a valid question index, 0 <=
\* current < total, and every entry of answers is either unanswered or one
\* valid option index of its own question.
C13_IndexAndAnswersInRange ==
    /\ current \in 0..(total - 1)
    /\ \A i \in 1..total :
          \/ answers[i] = None
          \/ /\ Len(answers[i]) = 1
             /\ answers[i][1] \in 0..(questions[i].options - 1)

C13_Witness ==
    /\ current = total - 1
    /\ Submitted
    /\ \A i \in 1..total : answers[i] # None
    /\ answers[1] = Some(questions[1].options - 1)
    /\ answers[total] = Some(0)

\* C14: every name stored in the file has at most 20 characters and neither
\* starts nor ends with whitespace, whatever the user typed.
C14_StoredNamesClean ==
    \A i \in 1..Len(file.scores) :
        LET n == file.scores[i].name IN
        /\ Len(n) <= NameCap
        /\ n # << >> => (~IsSpace(n[1]) /\ ~IsSpace(n[Len(n)]))

\* num/den rounded half-up to tenths, in tenths
HalfUpTenths(num, den) == (20 * num + den) \div (2 * den)

\* C15: the percentage shown is score/total x 100 rounded half-up to one
\* decimal place for every score in 0..total; 1 of 3 gives 33.3, 2 of 3
\* gives 66.7 and 5 of 5 gives 100.0.
C15_PercentHalfUp ==
    last.op = "result"
    => /\ last.pct = HalfUpTenths(100 * last.score, last.of)
       /\ (last.score = 1 /\ last.of = 3) => last.pct = 333
       /\ (last.score = 2 /\ last.of = 3) => last.pct = 667
       /\ (last.score = 5 /\ last.of = 5) => last.pct = 1000

\* C16: Next, Previous and Submit, from a button or a key, each record the
\* pending selection (if there is one) as the answer of the question that
\* was current when the event fired, at the first and the last question as
\* well, and touch the answer of no other question; after a move the
\* pending selection is the recorded answer of the new current question,
\* or none if it has no recorded answer.
C16_SelectionRecordedAtCurrent ==
    [][last'.op \in { "next_question", "prev_question", "submit_quiz" }
       => /\ \A i \in 1..total : i # current + 1 => answers'[i] = answers[i]
          /\ selected >= 0 => answers'[current + 1] = Some(selected)
          /\ selected < 0 => answers'[current + 1] = answers[current + 1]
          /\ current' # current
             => selected' = (IF answers'[current' + 1] = None
                             THEN NoSelection
                             ELSE answers'[current' + 1][1])]_vars

C16_Witness ==
    /\ last.op = "prev_question"
    /\ last.res = "moved"
    /\ current = 0
    /\ answers[2] = Some(3)
    /\ answers[1] = Some(1)
    /\ selected = 1

\* C17: a session shows its score at most once and writes at most one
\* record: once a submission has completed (the session is Submitted), no
\* event, the Next key at the last question included, shows a score again
\* or changes the stored leaderboard.
C17_OneReportOneRecord ==
    [][Submitted => /\ results' = results
                    /\ saves' = saves
                    /\ file' = file]_vars

\* x has a strictly greater (score, total) than y
KeyGreater(x, y) ==
    \/ x.score > y.score
    \/ x.score = y.score /\ x.total > y.total

KeyEqual(x, y) == x.score = y.score /\ x.total = y.total

\* The place of the i-th saved record among all records ever saved, ordered
\* by score descending, total descending, then order of saving
Rank(i) ==
    1 + Cardinality({ j \in 1..Len(saved) :
                        \/ KeyGreater(saved[j], saved[i])
                        \/ KeyEqual(saved[j], saved[i]) /\ j < i })

\* C18: the stored leaderboard is the first 10 of all records ever saved,
\* ordered by score descending, total descending, save order; a new record
\* lands at position 1 exactly when its (score, total) is strictly greater
\* than that of every stored entry, and it is dropped when the board is
\* full and its (score, total) is not strictly greater than the 10th's.
C18_BoardIsTopTenOfHistory ==
    /\ [](/\ Len(file.scores) = (IF Len(saved) < TopN THEN Len(saved)
                                 ELSE TopN)
          /\ \A i \in 1..Len(saved) :
                Rank(i) <= TopN => file.scores[Rank(i)] = saved[i])
    /\ [][saves' = saves + 1
          => LET rec == last'.rec
                 old == file.scores
             IN /\ file'.scores[1] = rec
                   <=> \A i \in 1..Len(old) : KeyGreater(rec, old[i])
                /\ (Len(old) = TopN /\ ~KeyGreater(rec, old[TopN]))
                   => file'.scores = old]_vars

C18_Witness ==
    /\ saves = 12
    /\ Len(file.scores) = TopN
    /\ file.scores[1] = saved[11]
    /\ \A i \in 1..TopN : file.scores[i] # saved[12]
    /\ KeyEqual(saved[12], file.scores[TopN])

\* C19: a recorded answer is never cleared: an entry of answers that holds
\* an option index may be replaced by another option index, but no event
\* makes it unanswered again.
C19_AnswerNeverCleared ==
    [][\A i \in 1..total : answers[i] # None => answers'[i] # None]_vars

C19_Witness ==
    /\ last.op = "prev_question"
    /\ last.res = "stayed"
    /\ current = 0
    /\ answers[1] = Some(0)
    /\ answers[2] = Some(2)
    /\ Submitted
====
